---- MODULE Spec2Model ----
(***************************************************************************)
(* A model of the api-client repository: the callback-based ApiClient      *)
(* (src/src/client.ts, two near-duplicate classes) and the                 *)
(* ApiClientStore / ApiFetcher pair (src/src/store.ts).                    *)
(*                                                                         *)
(* JavaScript values are modelled as records tagged by a field t.  An      *)
(* optional key of an options object is a set: {} when the key is absent,  *)
(* {v} when it is present with value v.                                    *)
(***************************************************************************)
EXTENDS Integers, Sequences, FiniteSets, Bags, TLC

\* ------------------------------------------------------------------ bounds

\* Calls of one ApiClientStore that may be awaiting their response at once.
MaxInFlight == 2

\* ---------------------------------------------------------- JS primitives

Absent == {}
Some(v) == {v}
Has(o) == o # {}
ValueOf(o) == CHOOSE v \in o : TRUE

\* The value undefined, where a string is expected.
Undefined == "<undefined>"
\* A caller-supplied function (successRedirectTo / errorRedirectTo).
Fn == "<function>"

\* JS truthiness of an optional string-valued key.
TruthyStr(o) == Has(o) /\ ValueOf(o) \notin {"", Undefined}
\* JS truthiness of an optional boolean-valued key.
TruthyBool(o) == o = {TRUE}

JsUndefined == [t |-> "undefined"]
JsNull == [t |-> "null"]
JsString(s) == [t |-> "string", v |-> s]

\* String.prototype.includes over strings held as sequences of characters.
Includes(s, sub) ==
    \E i \in 1..(Len(s) - Len(sub) + 1) : SubSeq(s, i, i + Len(sub) - 1) = sub

\* ---------------------------------------------------------------- inputs

\* The four classes of the repository that expose get/post/put/delete.
VClient == "ApiClient"            \* client.ts:66, base URL host/version, history
VClientApi == "ApiClient(api)"    \* client.ts:288, base URL host/api/version
VFetcher == "ApiFetcher"          \* store.ts:107, used on its own
VStore == "ApiClientStore"        \* store.ts:14, extends ApiFetcher
Variants == {VClient, VClientApi, VFetcher, VStore}
\* The classes with the progress callback and the catch block.
ClientVariants == {VClient, VClientApi}
\* The classes whose calls share no state: the model follows one call at a time.
SingleCallVariants == {VClient, VClientApi, VFetcher}

Methods == {"GET", "POST", "PUT", "DELETE"}
Path == "/items"

\* params of a request: undefined, scalars only, a File, an array of Files.
ParamKinds == {"undefined", "scalars", "file", "fileArray"}

MsgValues == {"", "Saved"}
SuccessMsgOpts == {Absent, Some(Undefined)} \cup {Some(m) : m \in MsgValues}
ErrorMsgOpts == {Absent, Some("")}
ProcessingMsgOpts == {Absent, Some("")}
RedirectOpts == {Absent, Some("/next"), Some(Fn)}
\* What a caller-supplied redirect function may return.
FnReturns == {"", "/fn"}
PropagateOpts == {Absent, Some(FALSE), Some(TRUE)}
RequestKeyOpts == {Absent, Some("k1")}

\* ApiFetchOptions, client.ts:7-15 (client.ts:228-235 has no successRedirectTo
\* and never reads errorRedirectTo; ApiFetcher reads no option at all).
ClientOptions(v) ==
    IF v = VFetcher THEN {[requestKey |-> Absent, processingMsg |-> Absent,
                           successMsg |-> Absent, errorMsg |-> Absent,
                           successRedirectTo |-> Absent, errorRedirectTo |-> Absent,
                           propagateError |-> Absent]}
    ELSE
    [requestKey : RequestKeyOpts,
     processingMsg : ProcessingMsgOpts,
     successMsg : SuccessMsgOpts,
     errorMsg : ErrorMsgOpts,
     successRedirectTo : IF v = VClient THEN RedirectOpts ELSE {Absent},
     errorRedirectTo : IF v = VClient THEN RedirectOpts ELSE {Absent, Some("/next")},
     propagateError : PropagateOpts]

\* IStateRequestProps, store.ts:4-8.
ConsumeOpts == {Absent, Some(FALSE), Some(TRUE)}
SuccessMessageOpts == {Absent, Some(""), Some("Saved"), Some("Created")}
ErrorMessageOpts == {Absent, Some("Failed")}
StateProps ==
    [consumeError : ConsumeOpts,
     successMessage : SuccessMessageOpts,
     errorMessage : ErrorMessageOpts]

\* Responses of the transport.
Statuses == {200, 404, 500}
StatusText(s) ==
    CASE s = 200 -> "OK"
      [] s = 404 -> "Not Found"
      [] s = 500 -> "Internal Server Error"
      [] OTHER -> ""
ResOk(s) == s \in 200..299

CtJson == <<"a","p","p","l","i","c","a","t","i","o","n","/","j","s","o","n">>
CtText == <<"t","e","x","t","/","p","l","a","i","n">>
CtTextJson == <<"t","e","x","t","/","j","s","o","n">>
CtImage == <<"i","m","a","g","e","/","p","n","g">>
ContentTypes == {Absent, Some(CtJson), Some(CtText), Some(CtTextJson), Some(CtImage)}
StrText == <<"t","e","x","t">>
StrJson == <<"j","s","o","n">>

BodyEmpty == ""
BodyObject == "{\"name\":\"NotFound\",\"message\":\"missing\",\"validationErrors\":{}}"
Bodies == {BodyEmpty, BodyObject}

Responses == [kind : {"response"}, status : Statuses, contentType : ContentTypes, body : Bodies]
\* fetch() itself rejecting: a network failure.
TransportFailure == [kind |-> "exception"]
NoRes == [kind |-> "none"]
Settlements == Responses \cup {TransportFailure}

\* ------------------------------------------------------------------ errors

TypeError(msg) == [t |-> "TypeError", name |-> "TypeError", message |-> msg]
SyntaxError == [t |-> "SyntaxError", name |-> "SyntaxError", message |-> "Unexpected token"]
FetchError == TypeError("Failed to fetch")
\* What a raising collaborator throws.
Thrown(who) == [t |-> "Thrown", name |-> "Error", message |-> who]

\* ------------------------------------------------- response parsing

\* response.json(): the value a body parses to, or a raised SyntaxError.
JsonParse(body) ==
    IF body = BodyObject
    THEN [threw |-> FALSE,
          v |-> [t |-> "object", name |-> "NotFound", message |-> "missing",
                 validationErrors |-> <<>>]]
    ELSE [threw |-> TRUE, v |-> SyntaxError]

\* A deliberately wrong ParseBranch:
\* the order the prose gives, json before text.
ParseBranchJsonFirst(ct) ==
    IF Includes(ct, StrJson) THEN "json"
    ELSE IF Includes(ct, StrText) THEN "text"
    ELSE "null"

\* Which reader parseResponse picks for a non-empty content type.
ParseBranch(ct) ==
    IF Includes(ct, StrText) THEN "text"
    ELSE IF Includes(ct, StrJson) THEN "json"
    ELSE "null"

\* parseResponse: [threw, v], v the parsed body or the error raised.
parseResponse(r) ==
    IF Has(r.contentType) /\ Len(ValueOf(r.contentType)) > 0
    THEN LET branch == ParseBranch(ValueOf(r.contentType))
         IN CASE branch = "text" -> [threw |-> FALSE, v |-> JsString(r.body)]
              [] branch = "json" -> JsonParse(r.body)
              [] OTHER -> [threw |-> FALSE, v |-> JsNull]
    ELSE [threw |-> FALSE, v |-> JsNull]

\* ------------------------------------------------ outcome classification

\* Object.keys(validationErrors).reduce(push(...)): the messages of every field,
\* in key order.  A mapping is a sequence of [field, messages] entries.
RECURSIVE FlattenValidationErrors(_)
FlattenValidationErrors(ve) ==
    IF ve = <<>> THEN <<>>
    ELSE Head(ve).messages \o FlattenValidationErrors(Tail(ve))

\* class ResponseError of client.ts:41: message via super(), status and
\* validationErrors assigned; props.name is never assigned, so the instance
\* keeps Error.prototype.name.
ResponseError(props) ==
    [t |-> "ResponseError", name |-> "Error", message |-> props.message,
     status |-> props.status, validationErrors |-> props.validationErrors]

\* class ResponseError of client.ts:260 and store.ts:80: validationErrors flattened.
ResponseErrorFlat(props) ==
    [t |-> "ResponseError", name |-> "Error", message |-> props.message,
     status |-> props.status,
     validationErrors |-> FlattenValidationErrors(props.validationErrors)]

\* The props handed to new ResponseError for a non-2xx response whose body
\* parsed to p.
ErrorProps(r, p) ==
    LET e == IF p.t = "string"
             THEN [name |-> StatusText(r.status), message |-> p.v, validationErrors |-> <<>>]
             ELSE IF p.t \in {"null", "undefined"}
             THEN [name |-> "Unknown error", message |-> "Unknown error",
                   validationErrors |-> <<>>]
             ELSE [name |-> p.name, message |-> p.message,
                   validationErrors |-> p.validationErrors]
    IN [name |-> e.name, message |-> e.message, status |-> r.status,
        validationErrors |-> e.validationErrors]

\* -------------------------------------------------------- request building

\* _isFile of client.ts:122 also takes an array holding a File; the other two
\* classes test instanceof File only.
IsFileParam(v, kind) ==
    IF v = VClient THEN kind \in {"file", "fileArray"} ELSE kind = "file"

\* A deliberately wrong ContentTypeHeader:
\* the header only where a JSON body is sent.
ContentTypeHeaderBodyOnly(type, hasFiles) ==
    IF ~hasFiles /\ type # "GET" THEN Some(CtJson) ELSE Absent

\* if(!hasFiles) headers['Content-Type'] = 'application/json'
ContentTypeHeader(type, hasFiles) ==
    IF ~hasFiles THEN Some(CtJson) ELSE Absent

\* _getBody
GetBody(type, hasFiles) ==
    IF hasFiles THEN "multipart" ELSE IF type # "GET" THEN "json" ELSE "none"

NoReq == [method |-> "none"]

\* The synchronous part of _fetch up to new Request(...): [threw, error, request].
\* params defaults to {} in the two ApiClient classes and is used as given by
\* ApiFetcher, where Object.keys(undefined) raises; new Request raises for a GET
\* that carries a body.
BuildRequest(v, type, kind) ==
    LET hasFiles == IsFileParam(v, kind)
        body == GetBody(type, hasFiles)
        req == [method |-> type,
                query |-> IF type = "GET" /\ kind \notin {"undefined", "file"}
                          THEN "serialized" ELSE "",
                accept |-> CtJson,
                contentType |-> ContentTypeHeader(type, hasFiles),
                body |-> body,
                params |-> kind]
    IN IF v \in {VStore, VFetcher} /\ kind = "undefined"
       THEN [threw |-> TRUE, request |-> NoReq,
             error |-> TypeError("Cannot convert undefined or null to object")]
       ELSE IF type = "GET" /\ body # "none"
       THEN [threw |-> TRUE, request |-> NoReq,
             error |-> TypeError("Request with GET/HEAD method cannot have body")]
       ELSE [threw |-> FALSE, request |-> req, error |-> JsUndefined]

\* ------------------------------------------------------------------ state

VARIABLES
    variant,            \* the class that was constructed
    history,            \* ApiClient.history is configured
    onRequestProgress,  \* ApiClient.onRequestProgress is a function
    mayRaise,           \* the caller-supplied collaborators may raise
    pc,                 \* the ApiClient call: "idle", "dispatched", "fetching", "settled"
    options,            \* requestProps.options of the ApiClient call
    requestKey,         \* the requestKey of the ApiClient call
    request,            \* the Request handed to fetch(), not yet sent
    res,                \* what fetch() settled with
    events,             \* progress events delivered to onRequestProgress
    pushed,             \* targets handed to history.push, with the option they came from
    invoked,            \* calls of caller-supplied redirect functions: argument, return
    outcome,            \* the promise returned by get/post/put/delete
    steps,              \* history: what the ApiClient call has done, in order
    successMessage,     \* ApiClientStore.successMessage
    errorMessage,       \* ApiClientStore.errorMessage
    inflight,           \* ApiClientStore calls awaiting this._fetch (a bag)
    last,               \* the ApiClientStore call that has just settled
    lastSuccess,        \* history: message of the latest successful completion that gave one
    lastError           \* history: message of the latest failed completion that gave one

config == <<variant, history, onRequestProgress, mayRaise>>
clientVars == <<pc, options, requestKey, request, res, events, pushed, invoked, outcome,
                steps>>
storeVars == <<successMessage, errorMessage, inflight, last, lastSuccess, lastError>>
vars == <<config, clientVars, storeVars>>

NoOptions ==
    [requestKey |-> Absent, processingMsg |-> Absent, successMsg |-> Absent,
     errorMsg |-> Absent, successRedirectTo |-> Absent, errorRedirectTo |-> Absent,
     propagateError |-> Absent]
NoKey == [none |-> TRUE]
NoOutcome == [state |-> "none", value |-> JsUndefined]
Pending == [state |-> "pending", value |-> JsUndefined]
NoLast == [settled |-> FALSE]

\* The state after construction (client.ts:75-81, client.ts:294-299,
\* store.ts:16-23 and 112-116).  Only client.ts:66 takes a history.
InitBase ==
    /\ variant \in Variants
    /\ history \in (IF variant = VClient THEN BOOLEAN ELSE {FALSE})
    /\ onRequestProgress \in (IF variant \in ClientVariants THEN BOOLEAN ELSE {FALSE})
    /\ pc = "idle"
    /\ options = NoOptions
    /\ requestKey = NoKey
    /\ request = NoReq
    /\ res = NoRes
    /\ events = <<>>
    /\ pushed = <<>>
    /\ invoked = <<>>
    /\ outcome = NoOutcome
    /\ steps = <<>>
    /\ successMessage = ""
    /\ errorMessage = ""
    /\ inflight = EmptyBag
    /\ last = NoLast
    /\ lastSuccess = ""
    /\ lastError = ""

Init == InitBase /\ mayRaise = FALSE

\* --------------------------------------------------- the ApiClient call

\* options.requestKey ? options.requestKey : `${Date.now()}_${type}_${path}`
RequestKey(type, opts) ==
    IF TruthyStr(opts.requestKey)
    THEN [given |-> ValueOf(opts.requestKey)]
    ELSE [now |-> "Date.now()", type |-> type, path |-> Path]

MsgOf(opts, phase) ==
    CASE phase = "processing" -> opts.processingMsg
      [] phase = "success" -> opts.successMsg
      [] phase = "error" -> opts.errorMsg

\* A deliberately wrong ReportGate:
\* gated on the value being truthy.
ReportGateTruthy(opts, phase) == TruthyStr(MsgOf(opts, phase))

\* options.hasOwnProperty(`${requestProgressType}Msg`)
ReportGate(opts, phase) == Has(MsgOf(opts, phase))

\* One thing a call does that its caller or its collaborators can see.
Step(do, of) == [do |-> do, of |-> of]

\* What a handler has done so far.
Ctx(e, p, i, st) == [events |-> e, pushed |-> p, invoked |-> i, steps |-> st]

\* ctx after the handler has done one more thing.
Then(ctx, do, of) == [ctx EXCEPT !.steps = Append(@, Step(do, of))]

\* _onRequestProgress: the callback is called when it is a function; raise says
\* whether the callback raises.  [ctx, raised]
OnRequestProgress(ctx, key, progress, raise) ==
    IF onRequestProgress
    THEN [ctx |-> Then([ctx EXCEPT !.events = Append(@, [requestKey |-> key,
                                                          type |-> progress.type,
                                                          message |-> progress.message])],
                       "event", progress.type),
          raised |-> raise]
    ELSE [ctx |-> ctx, raised |-> FALSE]

\* reportRequestProgress(phase, options[phase + "Msg"])
reportRequestProgress(ctx, opts, key, phase, raise) ==
    IF ReportGate(opts, phase)
    THEN OnRequestProgress(ctx, key,
                           [type |-> phase,
                            message |-> IF Has(MsgOf(opts, phase))
                                        THEN ValueOf(MsgOf(opts, phase))
                                        ELSE Undefined],
                           raise)
    ELSE [ctx |-> ctx, raised |-> FALSE]

\* A deliberately wrong RedirectGuard:
\* pushes whatever the target is.
RedirectGuardAnyTarget(targetUrl) == history

\* this.history && targetUrl
RedirectGuard(targetUrl) == history /\ targetUrl \notin {"", Undefined}

\* _redirectTo for the redirect option from: [ctx, raised]
redirectTo(ctx, targetUrl, from, raise) ==
    IF RedirectGuard(targetUrl)
    THEN [ctx |-> Then([ctx EXCEPT !.pushed = Append(@, [target |-> targetUrl,
                                                          from |-> from])],
                       "push", from),
          raised |-> raise]
    ELSE [ctx |-> ctx, raised |-> FALSE]

\* The call ends: its promise resolves with value or rejects with it.
Settle(ctx, state, value) ==
    [events |-> ctx.events, pushed |-> ctx.pushed, invoked |-> ctx.invoked,
     steps |-> Then(ctx, "settle", state).steps,
     outcome |-> [state |-> state, value |-> value]]

\* A redirect option applied: the function is called with arg and returns ret,
\* or the literal is used; then _redirectTo.  [ctx, raised, by]
Redirect(ctx, o, name, arg, ret, R) ==
    LET isFn == ValueOf(o) = Fn
        raises == isFn /\ "redirectFn" \in R
        c1 == IF isFn
              THEN Then([ctx EXCEPT !.invoked =
                             Append(@, [fn |-> name, arg |-> arg,
                                        returned |-> IF raises THEN Undefined ELSE ret])],
                        "call", name)
              ELSE ctx
    IN IF raises
       THEN [ctx |-> c1, raised |-> TRUE, by |-> name]
       ELSE LET rd == redirectTo(c1, IF isFn THEN ret ELSE ValueOf(o), name, "push" \in R)
            IN [ctx |-> rd.ctx, raised |-> rd.raised, by |-> "history.push"]

\* A deliberately wrong Propagates:
\* any propagateError key, false included, re-throws.
PropagatesWhenPresent(opts) == Has(opts.propagateError)

\* if(options.propagateError) throw err
Propagates(opts) == TruthyBool(opts.propagateError)

\* The catch block of _fetch (client.ts:198-211, client.ts:399-407), entered with
\* err: the error event, then the re-throw, then (client.ts:206 only) the error
\* redirect.  R names the collaborators that raise, ret is what a redirect
\* function returns.
Catch(ctx, opts, key, err, ret, R) ==
    LET rep == reportRequestProgress(ctx, opts, key, "error", "onRequestProgress" \in R)
        rd == Redirect(rep.ctx, opts.errorRedirectTo, "errorRedirectTo", err, ret, R)
    IN IF rep.raised
       THEN Settle(rep.ctx, "rejected", Thrown("onRequestProgress"))
       ELSE IF Propagates(opts)
       THEN Settle(rep.ctx, "rejected", err)
       ELSE IF variant = VClient /\ TruthyStr(opts.errorRedirectTo)
       THEN IF rd.raised THEN Settle(rd.ctx, "rejected", Thrown(rd.by))
            ELSE Settle(rd.ctx, "resolved", JsUndefined)
       ELSE Settle(rep.ctx, "resolved", JsUndefined)

\* The success branch of client.ts:183-196 for the parsed body p.
SuccessClient(ctx, opts, key, p, ret, R) ==
    LET rep == reportRequestProgress(ctx, opts, key, "success", "onRequestProgress" \in R)
        rd == Redirect(rep.ctx, opts.successRedirectTo, "successRedirectTo", p, ret, R)
    IN IF rep.raised
       THEN Catch(rep.ctx, opts, key, Thrown("onRequestProgress"), ret, R)
       ELSE IF TruthyStr(opts.successRedirectTo)
       THEN IF rd.raised THEN Catch(rd.ctx, opts, key, Thrown(rd.by), ret, R)
            ELSE Settle(rd.ctx, "resolved", p)
       ELSE Settle(rep.ctx, "resolved", p)

\* client.ts:161-196: the body is parsed first, then res.ok decides.
AfterFetchClient(ctx, opts, key, r, ret, R) ==
    LET parsed == parseResponse(r)
        c1 == Then(ctx, "parse", "response")
    IN IF parsed.threw THEN Catch(c1, opts, key, parsed.v, ret, R)
       ELSE IF ~ResOk(r.status)
       THEN Catch(c1, opts, key, ResponseError(ErrorProps(r, parsed.v)), ret, R)
       ELSE SuccessClient(c1, opts, key, parsed.v, ret, R)

\* client.ts:367-397: res.ok decides first; the success branch reports success
\* and then returns parseResponse(res) unawaited, so a parse failure there
\* rejects the call without entering the catch block.
AfterFetchClientApi(ctx, opts, key, r, ret, R) ==
    LET parsed == parseResponse(r)
        rep == reportRequestProgress(ctx, opts, key, "success", "onRequestProgress" \in R)
    IN IF ~ResOk(r.status)
       THEN IF parsed.threw
            THEN Catch(Then(ctx, "parse", "response"), opts, key, parsed.v, ret, R)
            ELSE Catch(Then(ctx, "parse", "response"), opts, key,
                       ResponseErrorFlat(ErrorProps(r, parsed.v)), ret, R)
       ELSE IF rep.raised
       THEN Catch(rep.ctx, opts, key, Thrown("onRequestProgress"), ret, R)
       ELSE IF parsed.threw
       THEN Settle(Then(rep.ctx, "parse", "response"), "rejected", parsed.v)
       ELSE Settle(Then(rep.ctx, "parse", "response"), "resolved", parsed.v)

\* ApiFetcher._fetch once fetch() has settled with s (store.ts:156-182):
\* [threw, v], the parsed body returned or the error raised.
FetcherResult(s) ==
    LET parsed == parseResponse(s)
    IN IF s.kind = "exception" THEN [threw |-> TRUE, v |-> FetchError]
       ELSE IF ~ResOk(s.status)
       THEN IF parsed.threw THEN parsed
            ELSE [threw |-> TRUE, v |-> ResponseErrorFlat(ErrorProps(s, parsed.v))]
       ELSE parsed

\* Why a call failed: the request could not be built, fetch() rejected, the
\* status was not 2xx, or a 2xx body did not parse ("success" otherwise).
Cause(s) ==
    IF s.kind = "exception" THEN "transport"
    ELSE IF ~ResOk(s.status) THEN "status"
    ELSE IF parseResponse(s).threw THEN "parse"
    ELSE "success"

\* _fetch resumed when fetch() settles with s.
AfterFetch(ctx, opts, key, s, ret, R) ==
    IF variant = VFetcher
    THEN Settle(IF s.kind = "exception" THEN ctx ELSE Then(ctx, "parse", "response"),
                IF FetcherResult(s).threw THEN "rejected" ELSE "resolved",
                FetcherResult(s).v)
    ELSE IF s.kind = "exception" THEN Catch(ctx, opts, key, FetchError, ret, R)
    ELSE IF variant = VClient THEN AfterFetchClient(ctx, opts, key, s, ret, R)
    ELSE AfterFetchClientApi(ctx, opts, key, s, ret, R)

RaisePoints == {"onRequestProgress", "redirectFn", "push"}
RaiseSets == IF mayRaise THEN SUBSET RaisePoints ELSE {{}}

\* _fetch(type, {path, params, options}) up to its first await: the processing
\* event, the request, fetch(request).  In the two ApiClient classes a raise in
\* this part runs the catch block at once; ApiFetcher._fetch has no try and
\* rejects.
Fetch(type, kind, opts, ret, R) ==
    LET key == RequestKey(type, opts)
        rep == reportRequestProgress(Ctx(<<>>, <<>>, <<>>, <<>>), opts, key, "processing",
                                     "onRequestProgress" \in R)
        built == BuildRequest(variant, type, kind)
        early == IF variant = VFetcher
                 THEN Settle(rep.ctx, "rejected", built.error)
                 ELSE IF rep.raised
                 THEN Catch(rep.ctx, opts, key, Thrown("onRequestProgress"), ret, R)
                 ELSE Catch(rep.ctx, opts, key, built.error, ret, R)
    IN /\ options' = opts
       /\ res' = NoRes
       /\ IF rep.raised \/ built.threw
          THEN /\ pc' = "settled"
               /\ requestKey' = NoKey
               /\ request' = NoReq
               /\ events' = early.events
               /\ pushed' = early.pushed
               /\ invoked' = early.invoked
               /\ outcome' = early.outcome
               /\ steps' = early.steps
          ELSE /\ pc' = "dispatched"
               /\ requestKey' = key
               /\ request' = built.request
               /\ events' = rep.ctx.events
               /\ pushed' = <<>>
               /\ invoked' = <<>>
               /\ outcome' = Pending
               /\ steps' = Then(rep.ctx, "fetch", "request").steps
       /\ UNCHANGED <<config, storeVars>>

\* The transport sends the request that was handed to fetch().
Transmit ==
    /\ pc = "dispatched"
    /\ pc' = "fetching"
    /\ request' = NoReq
    /\ UNCHANGED <<config, options, requestKey, res, events, pushed, invoked, outcome,
                   steps, storeVars>>

\* The values a redirect function of these options can be seen to return.
ReturnsFor(opts) ==
    IF Some(Fn) \in {opts.successRedirectTo, opts.errorRedirectTo}
    THEN FnReturns ELSE {""}

\* fetch() settles and _fetch runs to its end.
FetchSettles ==
    /\ pc = "fetching"
    /\ \E s \in Settlements, ret \in ReturnsFor(options), R \in RaiseSets :
        LET done == AfterFetch(Ctx(events, pushed, invoked, steps), options, requestKey, s, ret, R)
        IN /\ pc' = "settled"
           /\ res' = s
           /\ requestKey' = NoKey
           /\ events' = done.events
           /\ pushed' = done.pushed
           /\ invoked' = done.invoked
           /\ outcome' = done.outcome
           /\ steps' = done.steps
           /\ UNCHANGED <<config, options, request, storeVars>>

\* ------------------------------------------- ApiFetcher and ApiClientStore

\* A deliberately wrong MessageGate:
\* gated on the key being given.
MessageGatePresent(o) == Has(o)

\* if(successMessage) ... / if(errorMessage) ...
MessageGate(o) == TruthyStr(o)

\* A deliberately wrong Rethrows:
\* only an explicit consumeError: false re-throws.
RethrowsOnFalseOnly(consumeError) == consumeError = {FALSE}

\* if(!consumeError) throw err
Rethrows(consumeError) == ~TruthyBool(consumeError)

\* The catch block of _stateRequest: the new value of a store field.
SetsOnFailure(props, field, cur) ==
    IF field = "errorMessage" /\ MessageGate(props.errorMessage)
    THEN ValueOf(props.errorMessage)
    ELSE cur

\* The try block of _stateRequest after the await: the new value of a store field.
SetsOnSuccess(props, field, cur) ==
    IF field = "successMessage" /\ MessageGate(props.successMessage)
    THEN ValueOf(props.successMessage)
    ELSE cur

\* A message option that gives a message: the key is present and not empty.
Supplied(o) == Has(o) /\ ValueOf(o) # ""

\* _stateRequest resumed with the result of this._fetch (store.ts:30-39).
StateRequestEnds(props, cause, result) ==
    /\ successMessage' = IF result.threw
                         THEN SetsOnFailure(props, "successMessage", successMessage)
                         ELSE SetsOnSuccess(props, "successMessage", successMessage)
    /\ errorMessage' = IF result.threw
                       THEN SetsOnFailure(props, "errorMessage", errorMessage)
                       ELSE SetsOnSuccess(props, "errorMessage", errorMessage)
    /\ last' = [settled |-> TRUE,
                consumeError |-> props.consumeError,
                cause |-> cause,
                outcome |-> IF ~result.threw
                            THEN [state |-> "resolved", value |-> result.v]
                            ELSE IF Rethrows(props.consumeError)
                            THEN [state |-> "rejected", value |-> result.v]
                            ELSE [state |-> "resolved", value |-> JsUndefined]]
    /\ lastSuccess' = IF ~result.threw /\ Supplied(props.successMessage)
                      THEN ValueOf(props.successMessage) ELSE lastSuccess
    /\ lastError' = IF result.threw /\ Supplied(props.errorMessage)
                    THEN ValueOf(props.errorMessage) ELSE lastError

\* _stateRequest(type, requestProps) up to its await.  ApiFetcher._fetch builds
\* the request synchronously; when that raises, the promise awaited is already
\* rejected and the catch block runs before any response can arrive.
StateRequest(type, kind, props) ==
    LET built == BuildRequest(variant, type, kind)
    IN /\ IF built.threw
          THEN /\ StateRequestEnds(props, "build", [threw |-> TRUE, v |-> built.error])
               /\ UNCHANGED inflight
          ELSE /\ inflight' = inflight (+) SetToBag({props})
               /\ UNCHANGED <<successMessage, errorMessage, last, lastSuccess, lastError>>
       /\ UNCHANGED <<config, clientVars>>

\* fetch() settles for one of the calls in flight, in any order, and its
\* _stateRequest runs to its end.
StateRequestSettles ==
    /\ variant = VStore
    /\ ~last.settled
    /\ \E props \in BagToSet(inflight), s \in Settlements :
        /\ inflight' = inflight (-) SetToBag({props})
        /\ StateRequestEnds(props, Cause(s), FetcherResult(s))
        /\ UNCHANGED <<config, clientVars>>

\* ------------------------------------------------------------- operations

\* A call is taken by an idle ApiClient, or by an ApiClientStore with room for
\* one more call in flight.
Call(type) ==
    \/ /\ variant \in SingleCallVariants
       /\ pc = "idle"
       /\ \E kind \in ParamKinds, opts \in ClientOptions(variant), R \in RaiseSets :
              \E ret \in ReturnsFor(opts) : Fetch(type, kind, opts, ret, R)
    \/ /\ variant = VStore
       /\ ~last.settled
       /\ BagCardinality(inflight) < MaxInFlight
       /\ \E kind \in ParamKinds, props \in StateProps : StateRequest(type, kind, props)

get == Call("GET")
post == Call("POST")
put == Call("PUT")
delete == Call("DELETE")

\* The caller's continuation takes the settled promise; the next call of the
\* model starts from there.  Calls of an ApiClient share no state, so the model
\* follows them one at a time.
Deliver ==
    \/ /\ pc = "settled"
       /\ pc' = "idle"
       /\ options' = NoOptions
       /\ requestKey' = NoKey
       /\ request' = NoReq
       /\ res' = NoRes
       /\ events' = <<>>
       /\ pushed' = <<>>
       /\ invoked' = <<>>
       /\ outcome' = NoOutcome
       /\ steps' = <<>>
       /\ UNCHANGED <<config, storeVars>>
    \/ /\ last.settled
       /\ last' = NoLast
       /\ UNCHANGED <<config, clientVars, successMessage, errorMessage, inflight,
                      lastSuccess, lastError>>

Next == get \/ post \/ put \/ delete \/ Transmit \/ FetchSettles \/ StateRequestSettles \/ Deliver

Spec == Init /\ [][Next]_vars

\* The same program with every collaborator it can take configured (progress
\* callback, redirect functions, router), each of which may raise when called.
InitRaise ==
    /\ InitBase
    /\ mayRaise = TRUE
    /\ history = (variant = VClient)
    /\ onRequestProgress = (variant \in ClientVariants)
SpecRaise == InitRaise /\ [][Next]_vars

\* -------------------------------------------------------------- properties

\* A call of an ApiClient has settled on a non-2xx response or on fetch() rejecting.
ClientFailed ==
    /\ variant \in ClientVariants
    /\ pc = "settled"
    /\ \/ res.kind = "exception"
       \/ res.kind = "response" /\ ~ResOk(res.status)

\* A call of an ApiClient has settled on a 2xx response whose body parsed.
ClientSucceeded ==
    /\ variant \in ClientVariants
    /\ pc = "settled"
    /\ res.kind = "response"
    /\ ResOk(res.status)
    /\ ~parseResponse(res).threw

\* A call of the store has settled on a non-2xx response or on fetch() rejecting.
StoreFailed ==
    /\ variant = VStore
    /\ last.settled
    /\ last.cause \in {"status", "transport"}

Resolved == outcome.state = "resolved"
Rejected == outcome.state = "rejected"

\* The error a failing call of an ApiClient was entered into the catch block
\* with is one the failure gives: the transport's, the parser's, or the
\* Response Error carrying the response's status.
ClientErrorOfFailure(err) ==
    IF res.kind = "exception" THEN err = FetchError
    ELSE \/ err = SyntaxError
         \/ err.t = "ResponseError" /\ err.status = res.status

C2_AsStated ==
    /\ ClientFailed /\ options.propagateError = Absent => Resolved
    /\ ClientFailed /\ Rejected => options.propagateError = Some(TRUE)
    /\ StoreFailed /\ last.consumeError = Absent => last.outcome.state = "resolved"
    /\ StoreFailed /\ last.outcome.state = "rejected" => last.consumeError = Some(FALSE)

\* C2, amended: an ApiClient swallows a failing call that gives no propagateError
\* and re-throws only when propagateError is true; the ApiClientStore re-throws a
\* failing call that gives no consumeError, and swallows only when consumeError
\* is true.
C2_DefaultPropagation ==
    /\ ClientFailed /\ options.propagateError = Absent => Resolved
    /\ ClientFailed /\ Rejected => options.propagateError = Some(TRUE)
    /\ StoreFailed /\ last.consumeError = Absent => last.outcome.state = "rejected"
    /\ StoreFailed /\ last.outcome.state = "resolved" => last.consumeError = Some(TRUE)

\* A failing store call that gave no consumeError has been rejected.
C2_Witness ==
    /\ StoreFailed
    /\ last.consumeError = Absent
    /\ last.cause = "status"
    /\ last.outcome.state = "rejected"

\* The delivered progress events of a phase.
EventsOf(phase) == {i \in DOMAIN events : events[i].type = phase}

\* The error redirect of the settled call has been performed: the literal path
\* pushed, or the function called with the error and what it returned pushed.
ErrorRedirectDone ==
    IF ValueOf(options.errorRedirectTo) = Fn
    THEN \E i \in DOMAIN invoked :
            /\ invoked[i].fn = "errorRedirectTo"
            /\ invoked[i].returned # "" =>
                  \E j \in DOMAIN pushed :
                      pushed[j] = [target |-> invoked[i].returned, from |-> "errorRedirectTo"]
    ELSE \E j \in DOMAIN pushed :
            pushed[j] = [target |-> ValueOf(options.errorRedirectTo), from |-> "errorRedirectTo"]

\* C3 as stated: on every failing call the local handling runs in full, whatever
\* propagateError is: the error event when the errorMsg key is present, and the
\* error redirect when errorRedirectTo is given and a router is configured.
C3_AsStated ==
    ClientFailed =>
        /\ Has(options.errorMsg) /\ onRequestProgress => EventsOf("error") # {}
        /\ variant = VClient /\ history /\ TruthyStr(options.errorRedirectTo) =>
              ErrorRedirectDone

\* C4 as stated: the error raised for a non-2xx response is a Response Error with
\* the response's status, whose name and message come from the parsed body: an
\* object body gives its name and message, a string body gives the status text
\* and the string, an empty or unparseable body gives "Unknown error" twice.
C4_AsStated ==
    ClientFailed /\ res.kind = "response" /\ Rejected
                 /\ res.contentType # Some(CtTextJson) =>
        /\ outcome.value.t = "ResponseError"
        /\ outcome.value.status = res.status
        /\ IF res.contentType = Some(CtJson) /\ res.body = BodyObject
           THEN outcome.value.name = "NotFound" /\ outcome.value.message = "missing"
           ELSE IF res.contentType = Some(CtText)
           THEN /\ outcome.value.name = StatusText(res.status)
                /\ outcome.value.message = res.body
           ELSE /\ outcome.value.name = "Unknown error"
                /\ outcome.value.message = "Unknown error"

\* An event carries the call's requestKey: the one given, or the composite of
\* the time, the method and the path.
CarriesRequestKey(e) ==
    IF TruthyStr(options.requestKey)
    THEN e.requestKey = [given |-> ValueOf(options.requestKey)]
    ELSE /\ e.requestKey \in [now : {"Date.now()"}, type : Methods, path : {Path}]
         /\ pc = "dispatched" => e.requestKey.type = request.method

\* C5: with a progress callback registered, a phase's event is delivered only if
\* its Msg key is present in the options, whatever the value, carrying that value
\* and the call's requestKey, and at most once per call; with the key present the
\* processing event is delivered on every call, the success event exactly once on
\* a call that succeeds and the error event exactly once on a call that fails.
C5_ProgressGate ==
    variant \in ClientVariants /\ onRequestProgress /\ pc # "idle" =>
        /\ \A phase \in {"processing", "success", "error"} :
              /\ Cardinality(EventsOf(phase)) <= 1
              /\ ~Has(MsgOf(options, phase)) => EventsOf(phase) = {}
        /\ \A i \in DOMAIN events :
              /\ events[i].message = ValueOf(MsgOf(options, events[i].type))
              /\ CarriesRequestKey(events[i])
              /\ events[i].requestKey = events[1].requestKey
        /\ Has(options.processingMsg) => Cardinality(EventsOf("processing")) = 1
        /\ ClientSucceeded /\ Has(options.successMsg) =>
              Cardinality(EventsOf("success")) = 1
        /\ ClientFailed /\ Has(options.errorMsg) => Cardinality(EventsOf("error")) = 1

\* A call that gave successMsg: "" has succeeded and its one success event, with
\* the empty message, is the last event delivered.
C5_Witness ==
    /\ ClientSucceeded
    /\ onRequestProgress
    /\ options.successMsg = Some("")
    /\ options.requestKey = Some("k1")
    /\ events # <<>>
    /\ events[Len(events)] =
          [requestKey |-> [given |-> "k1"], type |-> "success", message |-> ""]

\* Calls of the successRedirectTo function, and pushes of the success redirect.
SuccessInvocations == {i \in DOMAIN invoked : invoked[i].fn = "successRedirectTo"}
SuccessPushes == {j \in DOMAIN pushed : pushed[j].from = "successRedirectTo"}
ErrorInvocations == {i \in DOMAIN invoked : invoked[i].fn = "errorRedirectTo"}
ErrorPushes == {j \in DOMAIN pushed : pushed[j].from = "errorRedirectTo"}

\* The call was made with successRedirectTo a function and a router configured.
FunctionRedirectCall ==
    /\ variant = VClient
    /\ history
    /\ pc = "settled"
    /\ options.successRedirectTo = Some(Fn)

\* The function was called once, with the parsed response body.
CalledOnceWithBody ==
    /\ Cardinality(SuccessInvocations) = 1
    /\ \A i \in SuccessInvocations : invoked[i].arg = parseResponse(res).v

\* C6 as stated: with successRedirectTo a function and a router configured, a
\* successful call calls the function with the parsed body and pushes what it
\* returns exactly once, whatever it returns; a failing call neither calls the
\* function nor pushes a success redirect.
C6_AsStated ==
    FunctionRedirectCall =>
        IF ClientSucceeded
        THEN /\ CalledOnceWithBody
             /\ Cardinality(SuccessPushes) = 1
             /\ \A i \in SuccessInvocations, j \in SuccessPushes :
                   pushed[j].target = invoked[i].returned
        ELSE SuccessInvocations = {} /\ SuccessPushes = {}

\* C6, amended: as stated, but what the function returns is pushed, exactly once,
\* only when it is a non-empty path; an empty return value pushes nothing.
C6_SuccessRedirect ==
    FunctionRedirectCall =>
        IF ClientSucceeded
        THEN /\ CalledOnceWithBody
             /\ \A i \in SuccessInvocations :
                   IF invoked[i].returned = ""
                   THEN SuccessPushes = {}
                   ELSE /\ Cardinality(SuccessPushes) = 1
                        /\ \A j \in SuccessPushes : pushed[j].target = invoked[i].returned
        ELSE SuccessInvocations = {} /\ SuccessPushes = {}

\* A successful call whose function returned the empty string: called with the
\* body, nothing pushed.
C6_Witness ==
    /\ FunctionRedirectCall
    /\ ClientSucceeded
    /\ res.contentType = Some(CtJson)
    /\ Len(invoked) = 1
    /\ invoked[1].arg.t = "object"
    /\ invoked[1].returned = ""
    /\ pushed = <<>>
    /\ outcome = [state |-> "resolved", value |-> invoked[1].arg]

\* A request has been handed to fetch().
Dispatched == pc = "dispatched"

\* No param of the dispatched request is file-like.
NoFileLikeParam == request.params \in {"undefined", "scalars"}

\* C7 as stated: the Content-Type: application/json header is set only when the
\* body is JSON: on every non-GET call with no file-like param, never with a
\* multipart body, and not on a request with no body.
C7_AsStated ==
    Dispatched =>
        /\ request.contentType = Some(CtJson) <=> request.body = "json"
        /\ request.method # "GET" /\ NoFileLikeParam => request.body = "json"

\* C7, amended: the header is set on every request whose body is not multipart
\* form data, which is every non-GET call with no file-like param (a JSON body)
\* and also every GET call (no body); it is never set with a multipart body.
C7_ContentType ==
    Dispatched =>
        /\ request.contentType = Some(CtJson) <=> request.body # "multipart"
        /\ request.contentType # Some(CtJson) => request.contentType = Absent
        /\ request.method # "GET" /\ NoFileLikeParam => request.body = "json"
        /\ request.method = "GET" => request.body = "none"
        /\ request.params = "file" => request.body = "multipart"

\* A GET request with no body that carries the header.
C7_Witness ==
    /\ Dispatched
    /\ request.method = "GET"
    /\ request.params = "scalars"
    /\ request.body = "none"
    /\ request.contentType = Some(CtJson)

SettledOnResponse ==
    /\ variant \in SingleCallVariants
    /\ pc = "settled"
    /\ res.kind = "response"

\* The parsed body under the precedence json, then text, then null.
ParsedJsonFirst(r) ==
    IF Has(r.contentType) /\ Includes(ValueOf(r.contentType), StrJson)
    THEN JsonParse(r.body)
    ELSE IF Has(r.contentType) /\ Includes(ValueOf(r.contentType), StrText)
    THEN [threw |-> FALSE, v |-> JsString(r.body)]
    ELSE [threw |-> FALSE, v |-> JsNull]

\* The parsed body under the precedence text, then json, then null.
ParsedTextFirst(r) ==
    IF Has(r.contentType) /\ Includes(ValueOf(r.contentType), StrText)
    THEN [threw |-> FALSE, v |-> JsString(r.body)]
    ELSE IF Has(r.contentType) /\ Includes(ValueOf(r.contentType), StrJson)
    THEN JsonParse(r.body)
    ELSE [threw |-> FALSE, v |-> JsNull]

\* The settled call shows the body parsed as exp: a 2xx call returns the parsed
\* body, or fails when parsing raised; the error of a non-2xx call, where it
\* reaches the caller, is the parser's or carries the message of the parsed body.
ShowsParsed(exp) ==
    IF ResOk(res.status)
    THEN IF exp.threw
         THEN outcome \in {[state |-> "resolved", value |-> JsUndefined],
                           [state |-> "rejected", value |-> exp.v]}
         ELSE outcome = [state |-> "resolved", value |-> exp.v]
    ELSE Rejected =>
           IF exp.threw THEN outcome.value = exp.v
           ELSE /\ outcome.value.t = "ResponseError"
                /\ outcome.value.message =
                      (CASE exp.v.t = "string" -> exp.v.v
                         [] exp.v.t = "object" -> exp.v.message
                         [] OTHER -> "Unknown error")

\* C9 as stated: a content type containing "json" is parsed as JSON, otherwise
\* one containing "text" is read as text, otherwise the body is null, also for
\* a content type containing both, for success and error responses alike.
C9_AsStated == SettledOnResponse => ShowsParsed(ParsedJsonFirst(res))

\* C9, amended: a content type containing "text" is read as text, otherwise one
\* containing "json" is parsed as JSON, otherwise (a missing content type
\* included) the body is null; a content type containing both, such as
\* text/json, is read as text; for success and error responses alike.
C9_ParsePrecedence == SettledOnResponse => ShowsParsed(ParsedTextFirst(res))

\* A 2xx response declared text/json has been returned as a string.
C9_Witness ==
    /\ SettledOnResponse
    /\ res = [kind |-> "response", status |-> 200, contentType |-> Some(CtTextJson),
              body |-> BodyObject]
    /\ outcome = [state |-> "resolved", value |-> JsString(BodyObject)]

\* C10 as stated: a call ends fully succeeded (the parsed body returned, no error
\* event, no error redirect) or fully failed (no success event, no success
\* redirect), and a 2xx response that parsed returns the parsed body, whatever
\* the collaborators do.
C10_AsStated ==
    variant \in ClientVariants /\ pc = "settled" =>
        /\ \/ /\ ClientSucceeded
              /\ outcome = [state |-> "resolved", value |-> parseResponse(res).v]
              /\ EventsOf("error") = {}
              /\ ErrorInvocations = {} /\ ErrorPushes = {}
           \/ /\ EventsOf("success") = {}
              /\ SuccessInvocations = {} /\ SuccessPushes = {}
        /\ ClientSucceeded =>
              outcome = [state |-> "resolved", value |-> parseResponse(res).v]

\* Where in the call's steps a thing was done.
At(do, of) == {i \in DOMAIN steps : steps[i] = Step(do, of)}

\* Everything of a comes before everything of b.
Precedes(a, b) == \A i \in a, j \in b : i < j

\* The steps of a redirect: the call of the redirect function and the push.
RedirectSteps(name) == At("call", name) \cup At("push", name)

\* The processing event comes before the request is handed to the transport.
ProcessingBeforeDispatch == Precedes(At("event", "processing"), At("fetch", "request"))

\* The success event comes after the response body is parsed.
SuccessAfterParse ==
    At("event", "success") # {} =>
        /\ At("parse", "response") # {}
        /\ Precedes(At("parse", "response"), At("event", "success"))

\* The success event comes before the success redirect.
SuccessBeforeRedirect == Precedes(At("event", "success"), RedirectSteps("successRedirectTo"))

\* The error event comes before the error redirect and before the re-throw.
ErrorBeforeRedirectAndRethrow ==
    /\ Precedes(At("event", "error"), RedirectSteps("errorRedirectTo"))
    /\ Precedes(At("event", "error"), At("settle", "rejected"))

\* The request is handed to the transport at most once in a call.
DispatchedAtMostOnce == Cardinality(At("fetch", "request")) <= 1

\* C11 as stated: within one call the processing event comes before the
\* dispatch, the success event after the response is parsed and before the
\* success redirect, the error event before the error redirect and before any
\* re-throw, and the transport is dispatched at most once.
C11_AsStated ==
    variant \in ClientVariants =>
        /\ ProcessingBeforeDispatch
        /\ SuccessAfterParse
        /\ SuccessBeforeRedirect
        /\ ErrorBeforeRedirectAndRethrow
        /\ DispatchedAtMostOnce

====
